---- MODULE Spec2Model ----
(***************************************************************************)
(* A model of package ctxdb: the permit semaphore (db.sem), the idle       *)
(* buffer (db.conns), the race of every blocking client call against the   *)
(* caller's context, and the Row / Rows / Stmt / Tx handles built on it.   *)
(*                                                                         *)
(* Each thread is one goroutine of application code issuing public calls   *)
(* one after the other.  A step of a thread is one access to shared state  *)
(* (the semaphore, the idle buffer, a connection) together with the local  *)
(* code around it.  A client call that was started with "go f()" finishes  *)
(* in the step in which the caller's select takes the done branch; when    *)
(* the select takes the ctx.Done branch the call is abandoned.             *)
(***************************************************************************)
EXTENDS Integers, Sequences, FiniteSets, TLC

\* const maxOpenConns = 2: permits in db.sem and capacity of db.conns
maxOpenConns == 2

\* goroutines of application code besides the first: the first makes every
\* call of the package, with contexts that may be done at any time; the
\* others call only Ping, DB.Close and put(nil), with a context that is
\* never done
NumWorkers == 1

\* connections the factory can deliver before it starts to fail
MaxConns == 3

\* public calls the first goroutine makes in a run
MaxCalls == 4

\* public calls each of the other goroutines makes in a run
MaxWorkerCalls == 1

\* the largest argument given to SetMaxOpenConns
MaxCap == 3

Threads == 0..NumWorkers
IsClient(t) == t = 0
ConnIds == 1..MaxConns

VARIABLES
    sem,        \* number of permits in the channel db.sem
    dbConns,    \* the field db.conns: "chan" or "nil"
    idle,       \* the content of the channel made by Open for db.conns
    chClosed,   \* close(conns) has run on that channel
    factory,    \* the field db.factory: "set" or "nil"
    dbMaxOpenConns, \* the field db.maxOpenConns
    conn,       \* conn[c]: "none" (not created), "open" or "closed"
    panicked,   \* a panic has ended the program
    pc,         \* pc[t]: where thread t is in its current call
    op,         \* op[t]: the call thread t is in ("none": in no call)
    ctx,        \* ctx[t]: the context of the current call is done
    cur,        \* cur[t]: the local sqldb of the current call (0: none)
    werr,       \* werr[t]: the error the client work of the call left
    par,        \* the Tx or Stmt the client holds
    chi,        \* the Row or Rows the client holds
    ev,         \* the return of a call, in the state it returns to
    cancelled,  \* history: connections on which a cancellation won a race
    drained,    \* history: the connections the DB.Close in flight has closed
    calls       \* calls[t]: the number of public calls t has made

poolVars == <<sem, dbConns, idle, chClosed, factory>>
callVars == <<pc, op, ctx, cur, werr>>
handleVars == <<par, chi>>
histVars == <<drained, calls>>
vars == <<sem, dbConns, idle, chClosed, factory, dbMaxOpenConns, conn, panicked,
          pc, op, ctx, cur, werr, par, chi, ev,
          cancelled, drained, calls>>

----------------------------------------------------------------------------
\* Handles

\* no Tx and no Stmt
NoPar == [kind |-> "none", sqldb |-> 0, err |-> "nil", nilh |-> FALSE,
          fin |-> FALSE]

\* no Row and no Rows
NoChi == [kind |-> "none", sqldb |-> 0, err |-> "nil", row |-> FALSE,
          db |-> FALSE, fin |-> FALSE, work |-> 0]

\* &Row{err: e}, and every Row and Rows whose err is set while no work of
\* an abandoned Scan is running on it: the stored error is returned before
\* any other field is read, and nothing clears it, so the other fields are
\* not kept
ErrRow(e) == [kind |-> "row", sqldb |-> 0, err |-> e, row |-> FALSE,
              db |-> FALSE, fin |-> FALSE, work |-> 0]

\* &Row{row: res, sqldb: c, db: db}
NewRow(c, hasRow) == [kind |-> "row", sqldb |-> c, err |-> "nil",
                      row |-> hasRow, db |-> TRUE, fin |-> FALSE, work |-> 0]

\* &Rows{rows: res, sqldb: c, db: db}
NewRows(c) == [kind |-> "rows", sqldb |-> c, err |-> "nil",
               row |-> TRUE, db |-> TRUE, fin |-> FALSE, work |-> 0]

\* the Row or Rows h after the error e is stored in it; the work of an
\* abandoned Scan that is still running on h may assign h.err again
StoreErr(h, e) == IF h.work > 0 THEN [h EXCEPT !.err = e]
                  ELSE IF e = "nil" THEN h
                  ELSE [h EXCEPT !.err = e, !.sqldb = 0, !.row = FALSE,
                                 !.db = FALSE]

\* the Tx h after the sticky error e is latched: its other fields are not
\* read again
Sticky(h, e) == [h EXCEPT !.err = e, !.sqldb = 0, !.nilh = FALSE,
                          !.fin = TRUE]

\* &Tx{tx: tx, sqldb: c, db: db}; nilh: tx is nil (the client's Begin failed)
NewTx(c, nilh) == [kind |-> "tx", sqldb |-> c, err |-> "nil", nilh |-> nilh,
                   fin |-> FALSE]

\* &Stmt{stmt: res, query: query, sqldb: c, db: db}
NewStmt(c) == [kind |-> "stmt", sqldb |-> c, err |-> "nil", nilh |-> FALSE,
               fin |-> FALSE]

FreeSlot(h) == h.kind = "none" \/ h.fin

\* no call has just returned
NoEv == [t |-> 0, op |-> "none", err |-> "none", how |-> "none"]

----------------------------------------------------------------------------
Init ==
    /\ sem = maxOpenConns
    /\ dbConns = "chan"
    /\ idle = <<>>
    /\ chClosed = FALSE
    /\ factory = "set"
    /\ dbMaxOpenConns = maxOpenConns
    /\ conn = [c \in ConnIds |-> "none"]
    /\ panicked = FALSE
    /\ pc = [t \in Threads |-> "idle"]
    /\ op = [t \in Threads |-> "none"]
    /\ ctx = [t \in Threads |-> FALSE]
    /\ cur = [t \in Threads |-> 0]
    /\ werr = [t \in Threads |-> "nil"]
    /\ par = NoPar
    /\ chi = NoChi
    /\ ev = NoEv
    /\ cancelled = {}
    /\ drained = <<>>
    /\ calls = [t \in Threads |-> 0]

----------------------------------------------------------------------------
\* Helpers

Range(s) == {s[i] : i \in DOMAIN s}

\* the calls that go through handleWithSQL
PoolOps == {"Ping", "Exec", "QueryRow", "Query", "Prepare", "Begin",
            "Stmt.Exec", "Stmt.Query", "Stmt.QueryRow"}

\* the calls that end in db.process
ProcessOps == {"Ping", "Exec", "Stmt.Exec"}

\* the calls that return a *Row and no error
RowOps == {"QueryRow", "Stmt.QueryRow", "Tx.QueryRow"}

\* thread t starts one more public call
Budget(t) ==
    /\ calls[t] < (IF IsClient(t) THEN MaxCalls ELSE MaxWorkerCalls)
    /\ calls' = [calls EXCEPT ![t] = @ + 1]

\* no call returns in this step
Quiet == ev' = NoEv

\* the call of thread t starts: its locals are fresh
Enter(t, o, c, p) ==
    /\ pc' = [pc EXCEPT ![t] = p]
    /\ op' = [op EXCEPT ![t] = o]
    /\ ctx' = [ctx EXCEPT ![t] = c]
    /\ Quiet

\* the call of thread t returns e, having left by exit h
Return(t, e, h) ==
    /\ pc' = [pc EXCEPT ![t] = "idle"]
    /\ op' = [op EXCEPT ![t] = "none"]
    /\ ctx' = [ctx EXCEPT ![t] = FALSE]
    /\ cur' = [cur EXCEPT ![t] = 0]
    /\ werr' = [werr EXCEPT ![t] = "nil"]
    /\ ev' = [t |-> t, op |-> op[t], err |-> e, how |-> h]

\* a call o that returns in the step in which it starts
Immediate(t, o, e, h) ==
    /\ ev' = [t |-> t, op |-> o, err |-> e, how |-> h]
    /\ UNCHANGED callVars

\* a panic ends the program in the call of thread t
Panic(t) ==
    /\ panicked' = TRUE
    /\ ev' = [t |-> t, op |-> op[t], err |-> "panic", how |-> "panic"]

\* c.Close() on a *sql.DB: the error it returns.  Closing a closed
\* connection returns nil; closing an open one may fail (fails = TRUE).
CloseErr(c, fails) == IF conn[c] = "open" /\ fails THEN "closeErr" ELSE "nil"

\* the connections after c.Close(): closed, whether or not Close failed
Closed(c) == [conn EXCEPT ![c] = "closed"]

\* the first connection the factory has not delivered yet (0: none left)
FreshConn == IF \E c \in ConnIds : conn[c] = "none"
             THEN CHOOSE c \in ConnIds :
                    conn[c] = "none" /\ \A d \in 1..(c - 1) : conn[d] # "none"
             ELSE 0

\* a put that sends without looking at db.conns: what the test
\* "db.conns == nil" under db.mu rules out
PutPushesOnClosed == Len(idle) < maxOpenConns

\* put(c): the idle buffer and the connections after it, and its error.
\* Under db.mu: a closed pool or a full buffer closes c, else c is sent.
PutPushes == dbConns = "chan" /\ Len(idle) < maxOpenConns
PutIdle(c) == IF PutPushes THEN Append(idle, c) ELSE idle
PutConn(c) == IF PutPushes THEN conn ELSE Closed(c)
PutErr(c, fails) == IF PutPushes THEN "nil" ELSE CloseErr(c, fails)

\* c is in the idle buffer, in a handle or in a call after this step
RefNext(c) ==
    \/ c \in Range(idle')
    \/ par'.sqldb = c
    \/ chi'.sqldb = c
    \/ \E t \in Threads : cur'[t] = c

\* the connections after this step are base, and those on which a
\* cancellation won are canc; the record of a closed connection that
\* nothing refers to any more is dropped
Collect(base, canc) ==
    /\ conn' = [c \in ConnIds |->
                  IF base[c] = "closed" /\ ~RefNext(c) THEN "none"
                  ELSE base[c]]
    /\ cancelled' = {c \in canc : base[c] # "closed" \/ RefNext(c)}

----------------------------------------------------------------------------
\* DB.Ping, DB.Exec, DB.QueryRow, DB.Query, DB.Prepare, DB.Begin

\* a pool-level call starts: it enters handleWithSQL
Call(t, o, c) ==
    /\ ~panicked
    /\ Budget(t)
    /\ pc[t] = "idle"
    /\ o \in {"Ping", "Exec", "QueryRow", "Query", "Prepare", "Begin"}
    /\ (o # "Ping" \/ c) => IsClient(t)
    /\ o \in {"QueryRow", "Query"} => FreeSlot(chi)
    /\ o \in {"Prepare", "Begin"} => FreeSlot(par)
    /\ Enter(t, o, c, "acquire")
    /\ UNCHANGED <<poolVars, panicked, cur, werr, handleVars, drained>>
    /\ UNCHANGED dbMaxOpenConns
    /\ Collect(conn, cancelled)

\* the context of the call in flight is cancelled or its deadline passes
Cancel(t) ==
    /\ ~panicked
    /\ IsClient(t)
    /\ pc[t] \in {"acquire", "race"}
    /\ ~ctx[t]
    /\ ctx' = [ctx EXCEPT ![t] = TRUE]
    /\ Quiet
    /\ UNCHANGED <<poolVars, panicked, pc, op, cur, werr, handleVars,
                   histVars>>
    /\ UNCHANGED dbMaxOpenConns
    /\ Collect(conn, cancelled)

\* handleWithSQL returns the error e: its deferred function sends the
\* permit back, or panics when db.sem is full.  QueryRow wraps e in a Row.
HandleWithSQL_Fail(t, e, h) ==
    IF sem < maxOpenConns
    THEN /\ sem' = sem + 1
         /\ Return(t, IF op[t] \in RowOps THEN "nil" ELSE e, h)
         /\ chi' = IF op[t] \in RowOps THEN ErrRow(e) ELSE chi
         /\ UNCHANGED <<par, panicked>>
    ELSE /\ Panic(t)
         /\ UNCHANGED <<sem, callVars, handleVars>>

\* a handleWithSQL that goes on without a permit when db.sem is empty:
\* what the select on db.sem rules out
HandleWithSQL_AcquireUnguarded(t) ==
    /\ ~panicked
    /\ pc[t] = "acquire"
    /\ sem' = IF sem > 0 THEN sem - 1 ELSE sem
    /\ pc' = [pc EXCEPT ![t] = "getConns"]
    /\ Quiet
    /\ UNCHANGED <<dbConns, idle, chClosed, factory, panicked,
                   op, ctx, cur, werr, handleVars, histVars>>
    /\ UNCHANGED dbMaxOpenConns
    /\ Collect(conn, cancelled)

\* handleWithSQL, case <-db.sem
HandleWithSQL_Acquire(t) ==
    /\ ~panicked
    /\ pc[t] = "acquire"
    /\ sem > 0
    /\ sem' = sem - 1
    /\ pc' = [pc EXCEPT ![t] = "getConns"]
    /\ Quiet
    /\ UNCHANGED <<dbConns, idle, chClosed, factory, panicked,
                   op, ctx, cur, werr, handleVars, histVars>>
    /\ UNCHANGED dbMaxOpenConns
    /\ Collect(conn, cancelled)

\* handleWithSQL, case <-ctx.Done(): no permit was taken
HandleWithSQL_CtxDone(t) ==
    /\ ~panicked
    /\ pc[t] = "acquire"
    /\ ctx[t]
    /\ Return(t, IF op[t] \in RowOps THEN "nil" ELSE "ctxErr", "acq")
    /\ chi' = IF op[t] \in RowOps THEN ErrRow("ctxErr") ELSE chi
    /\ UNCHANGED <<poolVars, panicked, par, histVars>>
    /\ UNCHANGED dbMaxOpenConns
    /\ Collect(conn, cancelled)

\* getFromPool: conns := db.getConns(); a nil conns is ErrClosed
GetConns(t) ==
    /\ ~panicked
    /\ pc[t] = "getConns"
    /\ IF dbConns = "nil"
       THEN HandleWithSQL_Fail(t, "ErrClosed", "pool")
       ELSE /\ pc' = [pc EXCEPT ![t] = "select"]
            /\ Quiet
            /\ UNCHANGED <<sem, panicked, op, ctx, cur, werr, handleVars>>
    /\ UNCHANGED <<dbConns, idle, chClosed, factory, histVars>>
    /\ UNCHANGED dbMaxOpenConns
    /\ Collect(conn, cancelled)

\* getFromPool, case conn := <-conns with a connection in the buffer
GetFromPool_Recv(t) ==
    /\ ~panicked
    /\ pc[t] = "select"
    /\ idle # <<>>
    /\ idle' = Tail(idle)
    /\ cur' = [cur EXCEPT ![t] = Head(idle)]
    /\ pc' = [pc EXCEPT ![t] = "race"]
    /\ Quiet
    /\ UNCHANGED <<sem, dbConns, chClosed, factory, panicked,
                   op, ctx, werr, handleVars, histVars>>
    /\ UNCHANGED dbMaxOpenConns
    /\ Collect(conn, cancelled)

\* getFromPool, case conn := <-conns on the closed and drained channel:
\* conn is nil and the result is ErrClosed
GetFromPool_Closed(t) ==
    /\ ~panicked
    /\ pc[t] = "select"
    /\ idle = <<>>
    /\ chClosed
    /\ HandleWithSQL_Fail(t, "ErrClosed", "pool")
    /\ UNCHANGED <<dbConns, idle, chClosed, factory, histVars>>
    /\ UNCHANGED dbMaxOpenConns
    /\ Collect(conn, cancelled)

\* getFromPool, default: return db.factory().  db.factory is read without
\* db.mu, so a read that races with DB.Close may still see the factory.
GetFromPool_Factory(t, ok) ==
    /\ ~panicked
    /\ pc[t] = "select"
    /\ idle = <<>>
    /\ ~chClosed
    /\ IF ok /\ FreshConn # 0
       THEN /\ cur' = [cur EXCEPT ![t] = FreshConn]
            /\ pc' = [pc EXCEPT ![t] = "race"]
            /\ Quiet
            /\ UNCHANGED <<sem, panicked, op, ctx, werr, handleVars>>
       ELSE HandleWithSQL_Fail(t, "factoryErr", "pool")
    /\ UNCHANGED <<dbConns, idle, chClosed, factory, histVars>>
    /\ UNCHANGED dbMaxOpenConns
    /\ Collect(IF ok /\ FreshConn # 0
               THEN [conn EXCEPT ![FreshConn] = "open"] ELSE conn, cancelled)

\* getFromPool, default, after DB.Close has set db.factory to nil: the call
\* of a nil func panics
GetFromPool_NilFactory(t) ==
    /\ ~panicked
    /\ pc[t] = "select"
    /\ idle = <<>>
    /\ ~chClosed
    /\ factory = "nil"
    /\ Panic(t)
    /\ UNCHANGED <<poolVars, callVars, handleVars, histVars>>
    /\ UNCHANGED dbMaxOpenConns
    /\ Collect(conn, cancelled)

\* handleWithGivenSQL under handleWithSQL, case <-ctx.Done(): sqldb.Close(),
\* then the Close error or ctx.Err(); handleWithSQL gives the permit back
PoolOp_CtxDone(t, fails) ==
    /\ ~panicked
    /\ pc[t] = "race"
    /\ op[t] \in PoolOps
    /\ ctx[t]
    /\ HandleWithSQL_Fail(t, IF CloseErr(cur[t], fails) # "nil"
                             THEN "closeErr" ELSE "ctxErr", "cancel")
    /\ UNCHANGED <<dbConns, idle, chClosed, factory, histVars>>
    /\ UNCHANGED dbMaxOpenConns
    /\ Collect(Closed(cur[t]), cancelled \cup {cur[t]})

\* process, the work is done first: restoreOrClose(nil, sqldb) sends the
\* permit back and goes on to put; with db.sem full it returns an error
Process_Done(t, we) ==
    /\ ~panicked
    /\ pc[t] = "race"
    /\ op[t] \in ProcessOps
    /\ IF sem < maxOpenConns
       THEN /\ sem' = sem + 1
            /\ pc' = [pc EXCEPT ![t] = "put"]
            /\ werr' = [werr EXCEPT ![t] = we]
            /\ Quiet
            /\ UNCHANGED <<op, ctx, cur>>
       ELSE /\ Return(t, "overflow", "done")
            /\ UNCHANGED sem
    /\ UNCHANGED <<dbConns, idle, chClosed, factory, panicked,
                   handleVars, histVars>>
    /\ UNCHANGED dbMaxOpenConns
    /\ Collect(conn, cancelled)

\* process, put(sqldb) and the return of Ping, Exec or Stmt.Exec: Ping
\* drops the client's error, Exec and Stmt.Exec return it
Process_Put(t, fails) ==
    /\ ~panicked
    /\ pc[t] = "put"
    /\ op[t] \in ProcessOps
    /\ idle' = PutIdle(cur[t])
    /\ Return(t, IF PutErr(cur[t], fails) # "nil" THEN PutErr(cur[t], fails)
                 ELSE IF op[t] = "Ping" THEN "nil" ELSE werr[t], "done")
    /\ UNCHANGED <<sem, dbConns, chClosed, factory, panicked, handleVars,
                   histVars>>
    /\ UNCHANGED dbMaxOpenConns
    /\ Collect(PutConn(cur[t]), cancelled)

\* DB.QueryRow, the work is done first: the Row keeps the connection
QueryRow_Done(t) ==
    /\ ~panicked
    /\ pc[t] = "race"
    /\ op[t] = "QueryRow"
    /\ chi' = NewRow(cur[t], TRUE)
    /\ Return(t, "nil", "done")
    /\ UNCHANGED <<poolVars, panicked, par, histVars>>
    /\ UNCHANGED dbMaxOpenConns
    /\ Collect(conn, cancelled)

\* DB.Query, the work is done first: a client error is returned as it is,
\* else the Rows keeps the connection
Query_Done(t, we) ==
    /\ ~panicked
    /\ pc[t] = "race"
    /\ op[t] = "Query"
    /\ chi' = IF we = "nil" THEN NewRows(cur[t]) ELSE chi
    /\ Return(t, we, "done")
    /\ UNCHANGED <<poolVars, panicked, par, histVars>>
    /\ UNCHANGED dbMaxOpenConns
    /\ Collect(conn, cancelled)

\* DB.Prepare, the work is done first: a client error is returned as it is,
\* else the Stmt keeps the connection
Prepare_Done(t, we) ==
    /\ ~panicked
    /\ pc[t] = "race"
    /\ op[t] = "Prepare"
    /\ par' = IF we = "nil" THEN NewStmt(cur[t]) ELSE par
    /\ Return(t, we, "done")
    /\ UNCHANGED <<poolVars, panicked, chi, histVars>>
    /\ UNCHANGED dbMaxOpenConns
    /\ Collect(conn, cancelled)

\* DB.Begin, the work is done first: the error of sqldb.Begin() is not
\* looked at, the Tx is returned with whatever tx the client gave
Begin_Done(t, we) ==
    /\ ~panicked
    /\ pc[t] = "race"
    /\ op[t] = "Begin"
    /\ par' = NewTx(cur[t], we # "nil")
    /\ Return(t, "nil", "done")
    /\ UNCHANGED <<poolVars, panicked, chi, histVars>>
    /\ UNCHANGED dbMaxOpenConns
    /\ Collect(conn, cancelled)

----------------------------------------------------------------------------
\* DB.Close

\* DB.Close under db.mu: conns := db.conns; db.conns = nil; db.factory = nil;
\* a nil conns returns ErrClosed
Close_Swap(t) ==
    /\ ~panicked
    /\ Budget(t)
    /\ pc[t] = "idle"
    /\ dbConns' = "nil"
    /\ factory' = "nil"
    /\ IF dbConns = "nil"
       THEN Immediate(t, "Close", "ErrClosed", "closed")
       ELSE /\ Enter(t, "Close", FALSE, "closeChan")
            /\ UNCHANGED <<cur, werr>>
    /\ UNCHANGED <<sem, idle, chClosed, panicked, handleVars, drained>>
    /\ UNCHANGED dbMaxOpenConns
    /\ Collect(conn, cancelled)

\* DB.Close: close(conns)
Close_Chan(t) ==
    /\ ~panicked
    /\ pc[t] = "closeChan"
    /\ chClosed' = TRUE
    /\ pc' = [pc EXCEPT ![t] = "range"]
    /\ Quiet
    /\ UNCHANGED <<sem, dbConns, idle, factory, panicked,
                   op, ctx, cur, werr, handleVars, histVars>>
    /\ UNCHANGED dbMaxOpenConns
    /\ Collect(conn, cancelled)

\* DB.Close: one round of "for conn := range conns": conn.Close(), and the
\* first Close error ends the loop and the call
Close_Range(t, fails) ==
    /\ ~panicked
    /\ pc[t] = "range"
    /\ IF idle = <<>>
       THEN /\ Return(t, "nil", "done")
            /\ drained' = <<>>
            /\ UNCHANGED idle
       ELSE /\ idle' = Tail(idle)
            /\ IF CloseErr(Head(idle), fails) # "nil"
               THEN /\ Return(t, "closeErr", "done")
                    /\ drained' = <<>>
               ELSE /\ drained' = Append(drained, Head(idle))
                    /\ Quiet
                    /\ UNCHANGED callVars
    /\ UNCHANGED <<sem, dbConns, chClosed, factory, panicked, handleVars,
                   calls>>
    /\ UNCHANGED dbMaxOpenConns
    /\ Collect(IF idle = <<>> THEN conn ELSE Closed(Head(idle)), cancelled)

----------------------------------------------------------------------------
\* db.put(nil), called from inside the package

\* a put that sends whatever it is given, the nil connection too: what
\* the test "conn == nil" at the head of put rules out
Put_NilUnchecked(t) ==
    /\ ~panicked
    /\ Budget(t)
    /\ ~IsClient(t)
    /\ pc[t] = "idle"
    /\ idle' = PutIdle(0)
    /\ Immediate(t, "put", "nil", "nilconn")
    /\ UNCHANGED <<sem, dbConns, chClosed, factory, panicked, handleVars,
                   drained>>
    /\ UNCHANGED dbMaxOpenConns
    /\ Collect(conn, cancelled)

\* put(nil): ErrNilConn before db.mu is taken and db.conns is read
Put_Nil(t) ==
    /\ ~panicked
    /\ Budget(t)
    /\ ~IsClient(t)
    /\ pc[t] = "idle"
    /\ Immediate(t, "put", "ErrNilConn", "nilconn")
    /\ UNCHANGED <<poolVars, panicked, handleVars, drained>>
    /\ UNCHANGED dbMaxOpenConns
    /\ Collect(conn, cancelled)

----------------------------------------------------------------------------
\* DB.SetMaxOpenConns

\* a SetMaxOpenConns that makes db.sem hold i permits: what the single
\* assignment in SetMaxOpenConns rules out
SetMaxOpenConns_Refilling(t, i) ==
    /\ ~panicked
    /\ Budget(t)
    /\ pc[t] = "idle"
    /\ dbMaxOpenConns' = i
    /\ sem' = i
    /\ Immediate(t, "SetMaxOpenConns", "nil", "done")
    /\ UNCHANGED <<dbConns, idle, chClosed, factory, panicked, handleVars,
                   drained>>
    /\ UNCHANGED <<conn, cancelled>>

\* SetMaxOpenConns(i): db.maxOpenConns = i under db.mu, and nothing else
SetMaxOpenConns(t, i) ==
    /\ ~panicked
    /\ Budget(t)
    /\ pc[t] = "idle"
    /\ dbMaxOpenConns' = i
    /\ Immediate(t, "SetMaxOpenConns", "nil", "done")
    /\ UNCHANGED <<poolVars, panicked, handleVars, drained>>
    /\ UNCHANGED <<conn, cancelled>>

----------------------------------------------------------------------------
\* processWithGivenSQL: Row.Scan, Rows.Close, Tx.Commit, Tx.Rollback

\* the calls that end in processWithGivenSQL on the connection of a handle
GivenOps == {"Row.Scan", "Rows.Close", "Tx.Commit", "Tx.Rollback"}

\* the handles after the terminal call o has returned
FinChi(o) == IF o \in {"Row.Scan", "Rows.Close"}
             THEN [chi EXCEPT !.fin = TRUE] ELSE chi
FinPar(o) == IF o \in {"Tx.Commit", "Tx.Rollback", "Stmt.Close"}
             THEN [par EXCEPT !.fin = TRUE] ELSE par

\* a Row.Scan that tests r.db before r.row: what the order of the internal
\* validations rules out
RowScan_CallSwapped(t, c) ==
    /\ ~panicked
    /\ Budget(t)
    /\ IsClient(t)
    /\ pc[t] = "idle"
    /\ chi.kind = "row"
    /\ IF chi.err # "nil" \/ ~chi.row \/ ~chi.db \/ chi.sqldb = 0
       THEN /\ Immediate(t, "Row.Scan",
                   IF chi.err # "nil" THEN chi.err
                   ELSE IF ~chi.db THEN "errNoDB"
                   ELSE IF ~chi.row THEN "errNoRow" ELSE "errNoSQLDB",
                   IF chi.err # "nil" THEN "stored" ELSE "check")
            /\ chi' = [chi EXCEPT !.fin = TRUE]
       ELSE /\ Enter(t, "Row.Scan", c, "race")
            /\ cur' = [cur EXCEPT ![t] = chi.sqldb]
            /\ UNCHANGED <<werr, chi>>
    /\ UNCHANGED <<poolVars, panicked, par, drained>>
    /\ UNCHANGED dbMaxOpenConns
    /\ Collect(conn, cancelled)

\* Row.Scan starts: the stored error, then the internal validations, then
\* the scan is started on the Row's connection
RowScan_Call(t, c) ==
    /\ ~panicked
    /\ Budget(t)
    /\ IsClient(t)
    /\ pc[t] = "idle"
    /\ chi.kind = "row"
    /\ IF chi.err # "nil" \/ ~chi.row \/ ~chi.db \/ chi.sqldb = 0
       THEN /\ Immediate(t, "Row.Scan",
                   IF chi.err # "nil" THEN chi.err
                   ELSE IF ~chi.row THEN "errNoRow"
                   ELSE IF ~chi.db THEN "errNoDB" ELSE "errNoSQLDB",
                   IF chi.err # "nil" THEN "stored" ELSE "check")
            /\ chi' = [chi EXCEPT !.fin = TRUE]
       ELSE /\ Enter(t, "Row.Scan", c, "race")
            /\ cur' = [cur EXCEPT ![t] = chi.sqldb]
            /\ UNCHANGED <<werr, chi>>
    /\ UNCHANGED <<poolVars, panicked, par, drained>>
    /\ UNCHANGED dbMaxOpenConns
    /\ Collect(conn, cancelled)

\* Rows.Close, Rows.Columns, Rows.Next, Rows.Scan start: the stored error,
\* then the work is started on the Rows' connection
Rows_Call(t, o, c) ==
    /\ ~panicked
    /\ Budget(t)
    /\ IsClient(t)
    /\ pc[t] = "idle"
    /\ chi.kind = "rows"
    /\ o \in {"Rows.Close", "Rows.Columns", "Rows.Next", "Rows.Scan"}
    /\ IF chi.err # "nil"
       THEN /\ Immediate(t, o, IF o = "Rows.Next" THEN "false" ELSE chi.err,
                         "stored")
            /\ chi' = FinChi(o)
       ELSE /\ Enter(t, o, c, "race")
            /\ cur' = [cur EXCEPT ![t] = chi.sqldb]
            /\ UNCHANGED <<werr, chi>>
    /\ UNCHANGED <<poolVars, panicked, par, drained>>
    /\ UNCHANGED dbMaxOpenConns
    /\ Collect(conn, cancelled)

\* a Tx call that starts its work without looking at tx.stickyErr: what
\* the test "tx.stickyErr != nil" at the head of every Tx method rules out
Tx_CallUnlatched(t, o, c) ==
    /\ ~panicked
    /\ Budget(t)
    /\ IsClient(t)
    /\ pc[t] = "idle"
    /\ par.kind = "tx"
    /\ o \in {"Tx.Commit", "Tx.Rollback", "Tx.Exec", "Tx.Query",
              "Tx.QueryRow", "Tx.Prepare"}
    /\ o \in {"Tx.Query", "Tx.QueryRow"} => FreeSlot(chi)
    /\ Enter(t, o, c, "race")
    /\ cur' = [cur EXCEPT ![t] = par.sqldb]
    /\ UNCHANGED <<poolVars, panicked, werr, handleVars, drained>>
    /\ UNCHANGED dbMaxOpenConns
    /\ Collect(conn, cancelled)

\* Tx.Commit, Tx.Rollback, Tx.Exec, Tx.Query, Tx.QueryRow, Tx.Prepare start:
\* the sticky error, then the work is started on the transaction.  A nil
\* tx.tx (the client's Begin had failed) is dereferenced by the work.
Tx_Call(t, o, c) ==
    /\ ~panicked
    /\ Budget(t)
    /\ IsClient(t)
    /\ pc[t] = "idle"
    /\ par.kind = "tx"
    /\ o \in {"Tx.Commit", "Tx.Rollback", "Tx.Exec", "Tx.Query",
              "Tx.QueryRow", "Tx.Prepare"}
    /\ o \in {"Tx.Query", "Tx.QueryRow"} => FreeSlot(chi)
    /\ IF par.err # "nil"
       THEN /\ Immediate(t, o, IF o \in RowOps THEN "nil" ELSE par.err,
                         "sticky")
            /\ chi' = IF o \in RowOps THEN ErrRow(par.err) ELSE chi
            /\ par' = FinPar(o)
            /\ UNCHANGED panicked
       ELSE IF par.nilh
       THEN /\ Panic(t)
            /\ UNCHANGED <<callVars, handleVars>>
       ELSE /\ Enter(t, o, c, "race")
            /\ cur' = [cur EXCEPT ![t] = par.sqldb]
            /\ UNCHANGED <<werr, handleVars, panicked>>
    /\ UNCHANGED <<poolVars, drained>>
    /\ UNCHANGED dbMaxOpenConns
    /\ Collect(conn, cancelled)

\* processWithGivenSQL, case <-ctx.Done(): handleWithGivenSQL closes the
\* connection and returns the Close error or ctx.Err(); restoreOrClose
\* sends a permit, closes the connection again and returns that error, or
\* returns its own error when db.sem is full.  The work of Row.Scan goes
\* on running with the Row in its hands.
Given_CtxDone(t, fails) ==
    /\ ~panicked
    /\ pc[t] = "race"
    /\ op[t] \in GivenOps
    /\ ctx[t]
    /\ sem' = IF sem < maxOpenConns THEN sem + 1 ELSE sem
    /\ Return(t, IF sem >= maxOpenConns THEN "overflow"
                 ELSE IF CloseErr(cur[t], fails) # "nil" THEN "closeErr"
                 ELSE "ctxErr", "cancel")
    /\ chi' = IF op[t] = "Row.Scan"
              THEN [chi EXCEPT !.fin = TRUE, !.work = @ + 1]
              ELSE FinChi(op[t])
    /\ par' = FinPar(op[t])
    /\ UNCHANGED <<dbConns, idle, chClosed, factory, panicked,
                   histVars>>
    /\ UNCHANGED dbMaxOpenConns
    /\ Collect(Closed(cur[t]), cancelled \cup {cur[t]})

\* processWithGivenSQL, the work is done first with the error we:
\* restoreOrClose(nil, sqldb) sends a permit and goes on to put, or returns
\* its own error when db.sem is full.  The work of Row.Scan has stored we
\* in r.err.
Given_Done(t, we) ==
    /\ ~panicked
    /\ pc[t] = "race"
    /\ op[t] \in GivenOps
    /\ IF sem < maxOpenConns
       THEN /\ sem' = sem + 1
            /\ pc' = [pc EXCEPT ![t] = "put"]
            /\ werr' = [werr EXCEPT ![t] = we]
            /\ chi' = IF op[t] = "Row.Scan" THEN StoreErr(chi, we)
                      ELSE chi
            /\ Quiet
            /\ UNCHANGED <<op, ctx, cur, par>>
       ELSE /\ Return(t, "overflow", "done")
            /\ chi' = IF op[t] = "Row.Scan"
                      THEN [StoreErr(chi, we) EXCEPT !.fin = TRUE]
                      ELSE FinChi(op[t])
            /\ par' = FinPar(op[t])
            /\ UNCHANGED sem
    /\ UNCHANGED <<dbConns, idle, chClosed, factory, panicked,
                   histVars>>
    /\ UNCHANGED dbMaxOpenConns
    /\ Collect(conn, cancelled)

\* processWithGivenSQL, put(sqldb) and the return of the call: the error
\* of put, else the error the work left; Row.Scan reads it from r.err
Given_Put(t, fails) ==
    /\ ~panicked
    /\ pc[t] = "put"
    /\ op[t] \in GivenOps
    /\ idle' = PutIdle(cur[t])
    /\ Return(t, IF PutErr(cur[t], fails) # "nil" THEN PutErr(cur[t], fails)
                 ELSE IF op[t] = "Row.Scan" THEN chi.err ELSE werr[t], "done")
    /\ chi' = FinChi(op[t])
    /\ par' = FinPar(op[t])
    /\ UNCHANGED <<sem, dbConns, chClosed, factory, panicked, histVars>>
    /\ UNCHANGED dbMaxOpenConns
    /\ Collect(PutConn(cur[t]), cancelled)

\* the work of a Row.Scan that lost the race to the cancellation ends:
\* "r.err = r.row.Scan(dest...)" assigns the Row's error, an error or nil,
\* whatever r.err holds by then
RowScan_Abandoned(t, we) ==
    /\ ~panicked
    /\ IsClient(t)
    /\ chi.kind = "row"
    /\ chi.work > 0
    /\ chi' = StoreErr([chi EXCEPT !.err = we, !.work = @ - 1], we)
    /\ Quiet
    /\ UNCHANGED <<poolVars, panicked, callVars, par, histVars>>
    /\ UNCHANGED dbMaxOpenConns
    /\ Collect(conn, cancelled)

----------------------------------------------------------------------------
\* Rows.Columns, Rows.Next, Rows.Scan

RowsOps == {"Rows.Columns", "Rows.Next", "Rows.Scan"}

\* handleWithGivenSQL, case <-ctx.Done(): the connection is closed; Next
\* stores the error in rs.err and returns false, Columns and Scan return it
Rows_CtxDone(t, fails) ==
    /\ ~panicked
    /\ pc[t] = "race"
    /\ op[t] \in RowsOps
    /\ ctx[t]
    /\ LET e == IF CloseErr(cur[t], fails) # "nil" THEN "closeErr"
                ELSE "ctxErr"
       IN /\ Return(t, IF op[t] = "Rows.Next" THEN "false" ELSE e, "cancel")
          /\ chi' = IF op[t] = "Rows.Next"
                    THEN [StoreErr(chi, e) EXCEPT !.fin = TRUE]
                    ELSE [chi EXCEPT !.fin = TRUE]
    /\ UNCHANGED <<sem, dbConns, idle, chClosed, factory, panicked, par,
                   histVars>>
    /\ UNCHANGED dbMaxOpenConns
    /\ Collect(Closed(cur[t]), cancelled \cup {cur[t]})

\* handleWithGivenSQL, the work is done first: Columns returns the client's
\* error, Scan returns the nil of handleWithGivenSQL, Next returns res
Rows_Done(t, we) ==
    /\ ~panicked
    /\ pc[t] = "race"
    /\ op[t] \in RowsOps
    /\ Return(t, IF op[t] = "Rows.Columns" THEN we
                 ELSE IF op[t] = "Rows.Scan" THEN "nil"
                 ELSE IF we = "nil" THEN "true" ELSE "false", "done")
    /\ UNCHANGED <<poolVars, panicked, handleVars, histVars>>
    /\ UNCHANGED dbMaxOpenConns
    /\ Collect(conn, cancelled)

----------------------------------------------------------------------------
\* Tx.Exec, Tx.Query, Tx.QueryRow, Tx.Prepare

TxOps == {"Tx.Exec", "Tx.Query", "Tx.QueryRow", "Tx.Prepare"}

\* the work is done first: Exec and Prepare return the client's error,
\* Query returns it or a Rows, QueryRow a Row, both on the connection of
\* the transaction
Tx_Done(t, we) ==
    /\ ~panicked
    /\ pc[t] = "race"
    /\ op[t] \in TxOps
    /\ op[t] = "Tx.QueryRow" => we = "nil"
    /\ chi' = IF op[t] = "Tx.QueryRow" THEN NewRow(par.sqldb, TRUE)
              ELSE IF op[t] = "Tx.Query" /\ we = "nil"
              THEN NewRows(par.sqldb)
              ELSE chi
    /\ Return(t, we, "done")
    /\ UNCHANGED <<poolVars, panicked, par, histVars>>
    /\ UNCHANGED dbMaxOpenConns
    /\ Collect(conn, cancelled)

\* case <-ctx.Done(): tx.shutdown() calls tx.tx.Rollback() and waits for it
Tx_CtxDone(t) ==
    /\ ~panicked
    /\ pc[t] = "race"
    /\ op[t] \in TxOps
    /\ ctx[t]
    /\ pc' = [pc EXCEPT ![t] = "rollback"]
    /\ Quiet
    /\ UNCHANGED <<poolVars, panicked, op, ctx, cur, werr, handleVars,
                   histVars>>
    /\ UNCHANGED dbMaxOpenConns
    /\ Collect(conn, cancelled \cup {cur[t]})

\* a return after tx.shutdown() that gives e to the caller and leaves
\* tx.stickyErr as it was: what the assignments to tx.stickyErr rule out
Tx_LatchDropped(t, e) ==
    /\ Return(t, IF op[t] \in RowOps THEN "nil" ELSE e, "cancel")
    /\ par' = [par EXCEPT !.fin = TRUE]
    /\ chi' = IF op[t] \in RowOps THEN ErrRow(e) ELSE chi

\* the call returns e after tx.shutdown(): e is the sticky error from now
\* on, and the error of the Row that QueryRow returns
Tx_Latch(t, e) ==
    /\ Return(t, IF op[t] \in RowOps THEN "nil" ELSE e, "cancel")
    /\ par' = Sticky(par, e)
    /\ chi' = IF op[t] \in RowOps THEN ErrRow(e) ELSE chi

\* tx.shutdown(): tx.tx.Rollback() returns rb, restoreOrClose(rb, sqldb)
\* sends a permit (or fails when db.sem is full) and, with rb nil, goes on
\* to put the connection; with rb an error it closes the connection
Tx_Shutdown(t, rb, fails) ==
    /\ ~panicked
    /\ pc[t] = "rollback"
    /\ IF sem >= maxOpenConns
       THEN /\ Tx_Latch(t, "overflow")
            /\ UNCHANGED sem
       ELSE /\ sem' = sem + 1
            /\ IF rb = "nil"
               THEN /\ pc' = [pc EXCEPT ![t] = "put"]
                    /\ Quiet
                    /\ UNCHANGED <<op, ctx, cur, werr, handleVars>>
               ELSE Tx_Latch(t, IF CloseErr(cur[t], fails) # "nil"
                                THEN "closeErr" ELSE rb)
    /\ UNCHANGED <<dbConns, idle, chClosed, factory, panicked, histVars>>
    /\ UNCHANGED dbMaxOpenConns
    /\ Collect(IF sem < maxOpenConns /\ rb # "nil" THEN Closed(cur[t])
               ELSE conn, cancelled)

\* tx.shutdown(), put(sqldb): the error of put, else ctx.Err(), is latched
Tx_Put(t, fails) ==
    /\ ~panicked
    /\ pc[t] = "put"
    /\ op[t] \in TxOps
    /\ idle' = PutIdle(cur[t])
    /\ Tx_Latch(t, IF PutErr(cur[t], fails) # "nil"
                   THEN PutErr(cur[t], fails) ELSE "ctxErr")
    /\ UNCHANGED <<sem, dbConns, chClosed, factory, panicked, histVars>>
    /\ UNCHANGED dbMaxOpenConns
    /\ Collect(PutConn(cur[t]), cancelled)

\* Tx.Stmt: the sticky error in a Stmt, else the client's tx.tx.Stmt
Tx_Stmt(t) ==
    /\ ~panicked
    /\ Budget(t)
    /\ IsClient(t)
    /\ pc[t] = "idle"
    /\ par.kind = "tx"
    /\ IF par.err = "nil" /\ par.nilh
       THEN /\ Panic(t)
            /\ UNCHANGED callVars
       ELSE /\ Immediate(t, "Tx.Stmt", par.err,
                         IF par.err # "nil" THEN "sticky" ELSE "done")
            /\ UNCHANGED panicked
    /\ UNCHANGED <<poolVars, handleVars, drained>>
    /\ UNCHANGED dbMaxOpenConns
    /\ Collect(conn, cancelled)

----------------------------------------------------------------------------
\* Stmt.Close, Stmt.Exec, Stmt.Query, Stmt.QueryRow

\* Stmt.Exec, Stmt.Query, Stmt.QueryRow start: the stored error, then
\* handleWithSQL for a connection of their own.  Stmt.Close starts: the
\* stored error, then stmt.Close() is started on the Stmt's connection.
Stmt_Call(t, o, c) ==
    /\ ~panicked
    /\ Budget(t)
    /\ IsClient(t)
    /\ pc[t] = "idle"
    /\ par.kind = "stmt"
    /\ o \in {"Stmt.Close", "Stmt.Exec", "Stmt.Query", "Stmt.QueryRow"}
    /\ o \in {"Stmt.Query", "Stmt.QueryRow"} => FreeSlot(chi)
    /\ IF par.err # "nil"
       THEN /\ Immediate(t, o, IF o \in RowOps THEN "nil" ELSE par.err,
                         "stored")
            /\ chi' = IF o \in RowOps THEN ErrRow(par.err) ELSE chi
            /\ par' = FinPar(o)
       ELSE /\ Enter(t, o, c, IF o = "Stmt.Close" THEN "race" ELSE "acquire")
            /\ cur' = [cur EXCEPT ![t] = IF o = "Stmt.Close" THEN par.sqldb
                                         ELSE 0]
            /\ UNCHANGED <<werr, handleVars>>
    /\ UNCHANGED <<poolVars, panicked, drained>>
    /\ UNCHANGED dbMaxOpenConns
    /\ Collect(conn, cancelled)

\* Stmt.Close, case <-ctx.Done(): the connection is closed and opErr is
\* the Close error or ctx.Err(), but opErr is returned only if the err of
\* the abandoned stmt.Close() is set by then (we); else err, nil, is
StmtClose_CtxDone(t, fails, we) ==
    /\ ~panicked
    /\ pc[t] = "race"
    /\ op[t] = "Stmt.Close"
    /\ ctx[t]
    /\ Return(t, IF we = "nil" THEN "nil"
                 ELSE IF CloseErr(cur[t], fails) # "nil" THEN "closeErr"
                 ELSE "ctxErr", "cancel")
    /\ par' = FinPar(op[t])
    /\ UNCHANGED <<sem, dbConns, idle, chClosed, factory, panicked, chi,
                   histVars>>
    /\ UNCHANGED dbMaxOpenConns
    /\ Collect(Closed(cur[t]), cancelled \cup {cur[t]})

\* Stmt.Close, the work is done first: opErr is nil, and with err set it
\* is opErr that is returned, else err: nil either way
StmtClose_Done(t) ==
    /\ ~panicked
    /\ pc[t] = "race"
    /\ op[t] = "Stmt.Close"
    /\ Return(t, "nil", "done")
    /\ par' = FinPar(op[t])
    /\ UNCHANGED <<poolVars, panicked, chi, histVars>>
    /\ UNCHANGED dbMaxOpenConns
    /\ Collect(conn, cancelled)

\* Stmt.Query, the work is done first: a client error is returned as it
\* is, else the Rows keeps the connection that was acquired
StmtQuery_Done(t, we) ==
    /\ ~panicked
    /\ pc[t] = "race"
    /\ op[t] = "Stmt.Query"
    /\ chi' = IF we = "nil" THEN NewRows(cur[t]) ELSE chi
    /\ Return(t, we, "done")
    /\ UNCHANGED <<poolVars, panicked, par, histVars>>
    /\ UNCHANGED dbMaxOpenConns
    /\ Collect(conn, cancelled)

\* Stmt.QueryRow, the work is done first: the connection that was
\* acquired is dropped and the Row gets s.sqldb; res is nil when the
\* Prepare inside the work had failed
StmtQueryRow_Done(t, hasRow) ==
    /\ ~panicked
    /\ pc[t] = "race"
    /\ op[t] = "Stmt.QueryRow"
    /\ chi' = NewRow(par.sqldb, hasRow)
    /\ Return(t, "nil", "done")
    /\ UNCHANGED <<poolVars, panicked, par, histVars>>
    /\ UNCHANGED dbMaxOpenConns
    /\ Collect(conn, cancelled)

----------------------------------------------------------------------------
ClientErrs == {"nil", "clientErr"}

Next ==
    \E t \in Threads :
        \/ \E o \in {"Ping", "Exec", "QueryRow", "Query", "Prepare", "Begin"},
              c \in BOOLEAN : Call(t, o, c)
        \/ Cancel(t)
        \/ HandleWithSQL_Acquire(t)
        \/ HandleWithSQL_CtxDone(t)
        \/ GetConns(t)
        \/ GetFromPool_Recv(t)
        \/ GetFromPool_Closed(t)
        \/ \E ok \in BOOLEAN : GetFromPool_Factory(t, ok)
        \/ GetFromPool_NilFactory(t)
        \/ \E fails \in BOOLEAN : PoolOp_CtxDone(t, fails)
        \/ \E we \in ClientErrs : Process_Done(t, we)
        \/ \E fails \in BOOLEAN : Process_Put(t, fails)
        \/ QueryRow_Done(t)
        \/ \E we \in ClientErrs : Query_Done(t, we)
        \/ \E we \in ClientErrs : Prepare_Done(t, we)
        \/ \E we \in ClientErrs : Begin_Done(t, we)
        \/ Close_Swap(t)
        \/ Close_Chan(t)
        \/ \E fails \in BOOLEAN : Close_Range(t, fails)
        \/ Put_Nil(t)
        \/ \E c \in BOOLEAN : RowScan_Call(t, c)
        \/ \E o \in {"Rows.Close", "Rows.Columns", "Rows.Next", "Rows.Scan"},
              c \in BOOLEAN : Rows_Call(t, o, c)
        \/ \E o \in {"Tx.Commit", "Tx.Rollback", "Tx.Exec", "Tx.Query",
                     "Tx.QueryRow", "Tx.Prepare"},
              c \in BOOLEAN : Tx_Call(t, o, c)
        \/ \E fails \in BOOLEAN : Given_CtxDone(t, fails)
        \/ \E we \in ClientErrs : Given_Done(t, we)
        \/ \E fails \in BOOLEAN : Given_Put(t, fails)
        \/ \E we \in ClientErrs : RowScan_Abandoned(t, we)
        \/ \E fails \in BOOLEAN : Rows_CtxDone(t, fails)
        \/ \E we \in ClientErrs : Rows_Done(t, we)
        \/ \E we \in ClientErrs : Tx_Done(t, we)
        \/ Tx_CtxDone(t)
        \/ \E rb \in {"nil", "rollbackErr"}, fails \in BOOLEAN :
              Tx_Shutdown(t, rb, fails)
        \/ \E fails \in BOOLEAN : Tx_Put(t, fails)
        \/ Tx_Stmt(t)
        \/ \E o \in {"Stmt.Close", "Stmt.Exec", "Stmt.Query", "Stmt.QueryRow"},
              c \in BOOLEAN : Stmt_Call(t, o, c)
        \/ \E fails \in BOOLEAN, we \in ClientErrs :
              StmtClose_CtxDone(t, fails, we)
        \/ StmtClose_Done(t)
        \/ \E we \in ClientErrs : StmtQuery_Done(t, we)
        \/ \E hasRow \in BOOLEAN : StmtQueryRow_Done(t, hasRow)

Spec == Init /\ [][Next]_vars

----------------------------------------------------------------------------
\* Row.Scan on the Rows that code inside the package can make: a Row of
\* QueryRow with any of its fields unset afterwards, or a Row that stores
\* an error, on a pool that is open or closed

RowLiterals ==
    {[kind |-> "row", sqldb |-> s, err |-> "nil", row |-> r, db |-> d,
      fin |-> FALSE, work |-> 0] : s \in {0, 1}, r \in BOOLEAN,
                                   d \in BOOLEAN}
    \cup {ErrRow(e) : e \in {"clientErr", "ctxErr"}}

\* QueryRow has taken a permit and the connection 1 for a Row without a
\* stored error; the connection 2 may be idle
RowInit ==
    /\ chi \in RowLiterals
    /\ dbConns \in {"chan", "nil"}
    /\ idle \in (IF dbConns = "chan" THEN {<<>>, <<2>>} ELSE {<<>>})
    /\ chClosed = (dbConns = "nil")
    /\ factory = IF dbConns = "nil" THEN "nil" ELSE "set"
    /\ dbMaxOpenConns = maxOpenConns
    /\ sem = IF chi.err = "nil" THEN maxOpenConns - 1 ELSE maxOpenConns
    /\ conn = [c \in ConnIds |->
                 IF c = 1 /\ chi.err = "nil" THEN "open"
                 ELSE IF c \in Range(idle) THEN "open" ELSE "none"]
    /\ panicked = FALSE
    /\ pc = [t \in Threads |-> "idle"]
    /\ op = [t \in Threads |-> "none"]
    /\ ctx = [t \in Threads |-> FALSE]
    /\ cur = [t \in Threads |-> 0]
    /\ werr = [t \in Threads |-> "nil"]
    /\ par = NoPar
    /\ ev = NoEv
    /\ cancelled = {}
    /\ drained = <<>>
    /\ calls = [t \in Threads |-> 0]

RowNext ==
    \/ \E c \in BOOLEAN : RowScan_Call(0, c)
    \/ Cancel(0)
    \/ \E fails \in BOOLEAN : Given_CtxDone(0, fails)
    \/ \E we \in ClientErrs : Given_Done(0, we)
    \/ \E fails \in BOOLEAN : Given_Put(0, fails)
    \/ \E we \in ClientErrs : RowScan_Abandoned(0, we)

RowSpec == RowInit /\ [][RowNext]_vars

----------------------------------------------------------------------------
\* One goroutine whose every call is made with a context that is already
\* done (cancelled, or past its deadline) when the call starts: Ping, Exec,
\* QueryRow and Begin on the pool, Scan on the Row and Commit and Rollback
\* on the Tx that such calls have returned

PastNext ==
    \/ \E o \in {"Ping", "Exec", "QueryRow", "Begin"} : Call(0, o, TRUE)
    \/ HandleWithSQL_Acquire(0)
    \/ HandleWithSQL_CtxDone(0)
    \/ GetConns(0)
    \/ GetFromPool_Recv(0)
    \/ \E ok \in BOOLEAN : GetFromPool_Factory(0, ok)
    \/ \E fails \in BOOLEAN : PoolOp_CtxDone(0, fails)
    \/ \E we \in ClientErrs : Process_Done(0, we)
    \/ \E fails \in BOOLEAN : Process_Put(0, fails)
    \/ QueryRow_Done(0)
    \/ \E we \in ClientErrs : Begin_Done(0, we)
    \/ RowScan_Call(0, TRUE)
    \/ \E o \in {"Tx.Commit", "Tx.Rollback"} : Tx_Call(0, o, TRUE)
    \/ \E fails \in BOOLEAN : Given_CtxDone(0, fails)
    \/ \E we \in ClientErrs : Given_Done(0, we)
    \/ \E fails \in BOOLEAN : Given_Put(0, fails)
    \/ \E we \in ClientErrs : RowScan_Abandoned(0, we)

PastSpec == Init /\ [][PastNext]_vars

----------------------------------------------------------------------------
\* SetMaxOpenConns among the calls that take and give back permits: both
\* goroutines call SetMaxOpenConns and Ping, and the first also holds a
\* permit in a Row, with contexts that are never done

CapNext ==
    \E t \in Threads :
        \/ \E i \in 0..MaxCap : SetMaxOpenConns(t, i)
        \/ \E o \in {"Ping", "QueryRow"} : Call(t, o, FALSE)
        \/ HandleWithSQL_Acquire(t)
        \/ GetConns(t)
        \/ GetFromPool_Recv(t)
        \/ \E ok \in BOOLEAN : GetFromPool_Factory(t, ok)
        \/ \E we \in ClientErrs : Process_Done(t, we)
        \/ \E fails \in BOOLEAN : Process_Put(t, fails)
        \/ QueryRow_Done(t)
        \/ RowScan_Call(t, FALSE)
        \/ \E we \in ClientErrs : Given_Done(t, we)
        \/ \E fails \in BOOLEAN : Given_Put(t, fails)

CapSpec == Init /\ [][CapNext]_vars


\* the handle h exists and its terminal call has not been made
Live(h) == h.kind # "none" /\ ~h.fin

\* a live handle holds the connection c
LiveRef(c) ==
    \/ Live(par) /\ par.sqldb = c
    \/ Live(chi) /\ chi.sqldb = c

\* no call is in flight and every handle made so far is finished
Quiescent ==
    /\ ~panicked
    /\ \A t \in Threads : pc[t] = "idle"
    /\ FreeSlot(par)
    /\ FreeSlot(chi)

\* the connections that are checked out: open and not in the idle buffer
CheckedOut == {c \in ConnIds : conn[c] = "open" /\ c \notin Range(idle)}

\* the steps of the call of thread t that wait for no client call: the
\* branches on db.sem, on db.conns and on ctx.Done(), and the puts
CallerStep(t) ==
    \/ HandleWithSQL_Acquire(t)
    \/ HandleWithSQL_CtxDone(t)
    \/ GetConns(t)
    \/ GetFromPool_Recv(t)
    \/ GetFromPool_Closed(t)
    \/ \E ok \in BOOLEAN : GetFromPool_Factory(t, ok)
    \/ GetFromPool_NilFactory(t)
    \/ \E fails \in BOOLEAN : PoolOp_CtxDone(t, fails)
    \/ \E fails \in BOOLEAN : Process_Put(t, fails)
    \/ Close_Chan(t)
    \/ \E fails \in BOOLEAN : Close_Range(t, fails)
    \/ \E fails \in BOOLEAN : Given_CtxDone(t, fails)
    \/ \E fails \in BOOLEAN : Given_Put(t, fails)
    \/ \E fails \in BOOLEAN : Rows_CtxDone(t, fails)
    \/ Tx_CtxDone(t)
    \/ \E fails \in BOOLEAN : Tx_Put(t, fails)
    \/ \E fails \in BOOLEAN, we \in ClientErrs :
          StmtClose_CtxDone(t, fails, we)

\* every call on a Tx that goes through its sticky error
TxCalls == TxOps \cup {"Tx.Commit", "Tx.Rollback"}

\* thread t starts a call of O in this step, whether it returns in the
\* same step or not
Starts(t, O) ==
    /\ calls'[t] = calls[t] + 1
    /\ op'[t] \in O \/ (ev'.t = t /\ ev'.op \in O)

\* the error that the call that has just returned reports to its caller:
\* QueryRow reports it in the Row it returns
RetErr == IF ev.op \in RowOps THEN chi.err ELSE ev.err

\* the client holds a transaction that was begun and has neither been
\* committed or rolled back, nor cancelled, nor is in its Commit or Rollback
TxHeld ==
    /\ par.kind = "tx"
    /\ ~par.fin
    /\ par.err = "nil"
    /\ \A t \in Threads :
          op[t] \in TxCalls => (op[t] \in TxOps /\ pc[t] = "race")

----------------------------------------------------------------------------
\* Claims

\* C1: no permit is leaked or duplicated; in particular, whenever no call
\* is in flight and every handle made so far has been finished, db.sem
\* holds all maxOpenConns permits.
C1_PermitsConserved == Quiescent => sem = maxOpenConns

\* C2: at most maxOpenConns connections are checked out at any instant and
\* each of them is covered by a permit that is out of db.sem.
C2_CheckedOutCovered == Cardinality(CheckedOut) + sem <= maxOpenConns

\* C3: a connection is in one place only: it occurs at most once in the
\* idle buffer, and the connection of a live Tx, Stmt, Rows or Row is
\* neither in the idle buffer nor the connection that handleWithSQL got
\* from getFromPool for a call in flight.
C3_OnePlace ==
    /\ \A i, j \in DOMAIN idle : i # j => idle[i] # idle[j]
    /\ \A c \in ConnIds :
          LiveRef(c) =>
              /\ c \notin Range(idle)
              /\ \A t \in Threads : op[t] \in PoolOps => cur[t] # c

\* C4: a connection on which the cancellation won the race against the
\* work is never in the idle buffer afterwards.
C4_CancelledNeverIdle == \A c \in cancelled : c \notin Range(idle)

\* C5: when the work of Ping, Exec or Stmt.Exec completes before the
\* cancellation, the permit is sent back and the connection goes to put:
\* the call never ends in the "sem overflow" error of restoreOrClose,
\* which leaves the connection neither in the idle buffer nor closed.
C5_ProcessRestores ==
    (ev.op \in ProcessOps /\ ev.how = "done") => ev.err # "overflow"

\* C6: when db.sem is empty and the context of a call waiting for a permit
\* is done, the call returns the context error (QueryRow: a Row that
\* stores it), takes no permit, gets no connection and starts no work:
\* db.sem, the idle buffer and the connections are as before.
C6_CancelBeforePermit ==
    [][\A t \in Threads :
          (pc[t] = "acquire" /\ sem = 0 /\ ctx[t] /\ pc'[t] # "acquire") =>
              /\ pc'[t] = "idle"
              /\ ev' = [t |-> t, op |-> op[t],
                        err |-> IF op[t] \in RowOps THEN "nil" ELSE "ctxErr",
                        how |-> "acq"]
              /\ op[t] \in RowOps => chi' = ErrRow("ctxErr")
              /\ cur'[t] = 0
              /\ sem' = sem
              /\ idle' = idle
              /\ \A c \in ConnIds : conn'[c] = "open" <=> conn[c] = "open"]_vars

\* C6, its case: a call has just returned the context error from the wait
\* for a permit while db.sem was empty
C6_Witness == ev.how = "acq" /\ ev.err = "ctxErr" /\ sem = 0

\* C7: a call whose context is done never waits for a client call: it
\* always has a step of its own to take.
C7_CancelledNeverWaits ==
    \A t \in Threads :
        (~panicked /\ ctx[t] /\ pc[t] # "idle") => ENABLED CallerStep(t)

\* C8: when DB.Close returns after taking the buffer, the pool is closed
\* and the idle buffer is empty: every idle connection was destroyed.
C8_CloseDrains ==
    (ev.op = "Close" /\ ev.how = "done") => dbConns = "nil" /\ idle = <<>>

\* C9: DB.Close on a closed pool returns ErrClosed, and no connection is
\* destroyed more than once by DB.Close.
C9_CloseOnce ==
    /\ (ev.op = "Close" /\ ev.how = "closed") => ev.err = "ErrClosed"
    /\ \A i, j \in DOMAIN drained : i # j => drained[i] # drained[j]

\* C10: a pool-level call that finds the pool closed (db.conns nil) fails
\* with ErrClosed (QueryRow: a Row that stores it), creates no connection
\* and sends back the permit it took.
C10_ClosedPoolFails ==
    [][\A t \in Threads :
          (pc[t] = "getConns" /\ dbConns = "nil"
              /\ ev'.op # "none" /\ ev'.t = t) =>
              /\ ev'.how = "pool"
              /\ ev'.err = IF op[t] \in RowOps THEN "nil" ELSE "ErrClosed"
              /\ op[t] \in RowOps => chi' = ErrRow("ErrClosed")
              /\ sem' = sem + 1
              /\ \A c \in ConnIds : conn'[c] = "open" <=> conn[c] = "open"]_vars

\* C11: put(nil) returns ErrNilConn whether the pool is open, full or
\* closed, and leaves the idle buffer, db.sem and the connections as they
\* were.
C11_PutNil ==
    [][\A t \in Threads :
          (ev'.op = "put" /\ ev'.how = "nilconn" /\ ev'.t = t) =>
              /\ ev'.err = "ErrNilConn"
              /\ idle' = idle
              /\ sem' = sem
              /\ dbConns' = dbConns
              /\ \A c \in ConnIds : conn'[c] = "open" <=> conn[c] = "open"]_vars

\* C11, its case: put(nil) has just returned ErrNilConn with the idle
\* buffer full
C11_Witness ==
    /\ ev.op = "put"
    /\ ev.err = "ErrNilConn"
    /\ dbConns = "chan"
    /\ Len(idle) = maxOpenConns

\* C12: put(conn) sends a non-nil connection to the idle buffer only if
\* the pool is open and the buffer holds fewer than maxOpenConns; otherwise
\* it closes the connection and returns the result of that Close, not an
\* error of the pool.  So the idle buffer never holds more than
\* maxOpenConns connections and nothing is added to it on a closed pool.
C12_PutBounded ==
    /\ [](Len(idle) <= maxOpenConns)
    /\ [][(Len(idle') > Len(idle)) => dbConns = "chan"]_vars
    /\ [][\A t \in Threads :
             (pc[t] = "put" /\ pc'[t] # "put") =>
                 /\ ev'.t = t
                 /\ ev'.err \notin {"ErrClosed", "ErrNilConn", "overflow"}
                 /\ IF dbConns = "chan" /\ Len(idle) < maxOpenConns
                    THEN /\ idle' = Append(idle, cur[t])
                         /\ conn[cur[t]] = "open" => conn'[cur[t]] = "open"
                    ELSE /\ idle' = idle
                         /\ conn'[cur[t]] # "open"]_vars

\* C12, its case: a put on an open pool has found the buffer full and has
\* closed the connection, returning the error of that Close
C12_Witness ==
    /\ ev.how = "done"
    /\ ev.op \in ProcessOps \cup GivenOps
    /\ ev.err = "closeErr"
    /\ dbConns = "chan"
    /\ Len(idle) = maxOpenConns

\* C13: sticky-error law of a Tx: once Exec, Query, QueryRow, Prepare,
\* Commit or Rollback on a Tx has returned an error, from the cancellation
\* or from the client, the next call on that Tx returns the same error at
\* once, starting no work on the connection.
C13_TxStickyLaw ==
    [][(ev.t = 0 /\ ev.op \in TxCalls /\ RetErr \notin {"nil", "panic"}
          /\ Starts(0, TxCalls)) =>
              /\ pc'[0] = "idle"
              /\ RetErr' = RetErr]_vars

\* C14: while tx.stickyErr is set, Commit, Rollback, Exec, Query, QueryRow
\* (in its Row), Prepare and Stmt return that error at once, start no work,
\* and leave the sticky error, db.sem, the idle buffer and the connections
\* as they were.
C14_StickyFrame ==
    [][(par.kind = "tx" /\ par.err # "nil"
          /\ Starts(0, TxCalls \cup {"Tx.Stmt"})) =>
              /\ pc'[0] = "idle"
              /\ ev'.t = 0
              /\ RetErr' = par.err
              /\ par'.err = par.err
              /\ sem' = sem
              /\ idle' = idle
              /\ \A c \in ConnIds : conn'[c] = "open" <=> conn[c] = "open"]_vars

\* C14, its case: Commit has just returned the sticky error that a
\* cancelled call had latched
C14_Witness ==
    /\ ev.op = "Tx.Commit"
    /\ ev.how = "sticky"
    /\ ev.err = "ctxErr"
    /\ par.err = "ctxErr"

\* C15: when the cancellation fires during Tx.Exec, Tx.Query, Tx.QueryRow
\* or Tx.Prepare, the connection of the transaction is closed and not in
\* the idle buffer when the call returns, whether the rollback succeeded or
\* not, and the call sends one permit to db.sem: in tx.shutdown(), and none
\* after it.
C15_TxCancelDestroys ==
    [][\A t \in Threads :
          (op[t] \in TxOps /\ pc[t] \in {"rollback", "put"}
              /\ pc'[t] # pc[t]) =>
              /\ sem' = IF pc[t] = "rollback" THEN sem + 1 ELSE sem
              /\ pc'[t] = "idle" =>
                    /\ cur[t] \notin Range(idle')
                    /\ conn'[cur[t]] # "open"]_vars

\* C16 as it was claimed: when the cancellation fires during Tx.Exec,
\* Tx.Query, Tx.QueryRow or Tx.Prepare, the error returned and latched is
\* the context error, also when the rollback fails.
C16_CancelErrIsCtxErr ==
    [][\A t \in Threads :
          (op[t] \in TxOps /\ pc[t] \in {"rollback", "put"}
              /\ pc'[t] = "idle") =>
              /\ par'.err = "ctxErr"
              /\ RetErr' = "ctxErr"]_vars

\* C16, amended: when the cancellation fires during Tx.Exec, Tx.Query,
\* Tx.QueryRow or Tx.Prepare, the error returned to the caller and the
\* error latched are the same, and it is the error of tx.shutdown() when
\* there is one: with a failed rollback the error of closing the
\* connection, else the rollback error; with a successful rollback the
\* error of put, which is nil when put sends the connection; with db.sem
\* full the error of restoreOrClose.  It is the context error only when
\* tx.shutdown() returns nil.
C16_CancelErrIsShutdownErr ==
    [][\A t \in Threads :
          (op[t] \in TxOps /\ pc[t] \in {"rollback", "put"}
              /\ pc'[t] = "idle") =>
              /\ ev'.t = t /\ ev'.how = "cancel"
              /\ par'.err # "nil"
              /\ RetErr' = par'.err
              /\ pc[t] = "rollback" =>
                    IF sem >= maxOpenConns THEN par'.err = "overflow"
                    ELSE par'.err \in {"closeErr", "rollbackErr"}
              /\ pc[t] = "put" =>
                    IF dbConns = "chan" /\ Len(idle) < maxOpenConns
                    THEN par'.err = "ctxErr"
                    ELSE par'.err \in {"closeErr", "ctxErr"}]_vars

\* C16, its case: a cancelled Tx call has just returned, and latched, the
\* error of the rollback that failed
C16_Witness ==
    /\ ev.op \in TxOps
    /\ ev.how = "cancel"
    /\ RetErr = "rollbackErr"
    /\ par.err = "rollbackErr"

\* C17: the first Commit or Rollback of a transaction, when its work
\* completes before the cancellation, sends the permit of Begin back to
\* db.sem and then hands the connection, which is not in the idle buffer
\* yet, to put: into the idle buffer if there is room, else closed.
C17_CommitReleases ==
    [][\A t \in Threads :
          (op[t] \in {"Tx.Commit", "Tx.Rollback"} /\ ~par.fin
              /\ pc'[t] # pc[t] /\ ev'.how # "cancel") =>
              /\ pc[t] = "race" => (sem' = sem + 1 /\ pc'[t] = "put")
              /\ pc[t] = "put" =>
                    /\ cur[t] \notin Range(idle)
                    /\ IF dbConns = "chan" /\ Len(idle) < maxOpenConns
                       THEN idle' = Append(idle, cur[t])
                       ELSE idle' = idle /\ conn'[cur[t]] # "open"]_vars

\* C18: from a successful Begin until Commit, Rollback or the first
\* cancellation, the transaction holds its connection and its permit: the
\* connection is open and not in the idle buffer, and db.sem is short of
\* the permit that Begin took.
C18_TxHolds ==
    TxHeld =>
        /\ par.sqldb \notin Range(idle)
        /\ conn[par.sqldb] = "open"
        /\ sem < maxOpenConns

\* C19: after a Commit or Rollback has completed and released the
\* transaction, the next call on that Tx only reports an error: it starts
\* no work, sends no permit and puts no connection into the idle buffer.
C19_ReleasedTxInert ==
    [][(ev.t = 0 /\ ev.op \in {"Tx.Commit", "Tx.Rollback"}
          /\ ev.how = "done" /\ ev.err # "overflow"
          /\ Starts(0, TxCalls)) =>
              /\ pc'[0] = "idle"
              /\ RetErr' # "nil"
              /\ sem' = sem
              /\ idle' = idle]_vars

\* C20: a Row releases its connection and its permit once: a Scan on a
\* Row whose first Scan has run, whether it succeeded, failed or was
\* cancelled, returns an error at once, starts no work, sends no permit and
\* puts no connection into the idle buffer.
C20_RowScanOnce ==
    [][(chi.kind = "row" /\ chi.fin /\ Starts(0, {"Row.Scan"})) =>
          /\ pc'[0] = "idle"
          /\ ev'.err # "nil"
          /\ sem' = sem
          /\ idle' = idle]_vars

\* C21: Row.Scan returns the stored error of the Row if there is one;
\* else errNoRow if r.row is unset, else errNoDB if r.db is unset, else
\* errNoSQLDB if r.sqldb is unset; in each of these cases it returns at
\* once, starts no work and leaves db.sem, the idle buffer and the
\* connections as they were.  Only a Row that passes all four goes on to
\* scan.
C21_ScanValidates ==
    [][Starts(0, {"Row.Scan"}) =>
          LET e == IF chi.err # "nil" THEN chi.err
                   ELSE IF ~chi.row THEN "errNoRow"
                   ELSE IF ~chi.db THEN "errNoDB"
                   ELSE IF chi.sqldb = 0 THEN "errNoSQLDB" ELSE "nil"
          IN IF e = "nil"
             THEN pc'[0] = "race" /\ cur'[0] = chi.sqldb
             ELSE /\ pc'[0] = "idle"
                  /\ ev' = [t |-> 0, op |-> "Row.Scan", err |-> e,
                            how |-> IF chi.err # "nil" THEN "stored"
                                    ELSE "check"]
                  /\ sem' = sem
                  /\ idle' = idle
                  /\ conn' = conn]_vars

\* C21, its case: Scan has just returned errNoSQLDB for a Row with its row
\* and its pool reference set and its connection unset
C21_Witness ==
    /\ ev.op = "Row.Scan"
    /\ ev.err = "errNoSQLDB"
    /\ chi.row /\ chi.db /\ chi.sqldb = 0

\* C22: the first Scan of a Row sends the Row's permit back whatever its
\* outcome, and the outcome decides about the connection: after a scan
\* that succeeded the connection is handed to put; after a scan that was
\* cancelled or that failed the connection is closed and not in the idle
\* buffer.
C22_ScanDecidesFate ==
    [][\A t \in Threads :
          (op[t] = "Row.Scan" /\ ~chi.fin /\ pc'[t] # pc[t]) =>
              /\ pc[t] = "race" => sem' = sem + 1
              /\ pc[t] = "put" => sem' = sem
              /\ pc'[t] = "idle" =>
                    IF pc[t] = "put" /\ werr[t] = "nil"
                    THEN IF dbConns = "chan" /\ Len(idle) < maxOpenConns
                         THEN idle' = Append(idle, cur[t])
                         ELSE idle' = idle /\ conn'[cur[t]] # "open"
                    ELSE /\ cur[t] \notin Range(idle')
                         /\ conn'[cur[t]] # "open"]_vars

\* C23: once the cancellation has fired during Next, Scan, Columns or
\* Close of a Rows, the next call on that Rows returns at once, starting no
\* work: Next returns false, the others return the error of the cancelled
\* call.
C23_RowsCancelSticks ==
    [][(ev.t = 0 /\ ev.op \in RowsOps \cup {"Rows.Close"}
          /\ ev.how = "cancel"
          /\ Starts(0, RowsOps \cup {"Rows.Close"})) =>
              /\ pc'[0] = "idle"
              /\ ev'.err = IF ev'.op = "Rows.Next" THEN "false"
                           ELSE IF ev.op = "Rows.Next" THEN chi.err
                           ELSE ev.err]_vars

\* C24: a Rows releases its permit once: when Close returns and nothing
\* else is in flight or held, db.sem holds all its permits; and a call on
\* the Rows after a Close that completed returns at once, sends no permit
\* and puts no connection into the idle buffer.
C24_RowsReleaseOnce ==
    [][/\ (ev'.op = "Rows.Close" /\ Quiescent') => sem' = maxOpenConns
       /\ (ev.t = 0 /\ ev.op = "Rows.Close" /\ ev.how = "done"
             /\ Starts(0, RowsOps \cup {"Rows.Close"})) =>
                 /\ pc'[0] = "idle"
                 /\ sem' = sem
                 /\ idle' = idle]_vars

\* C25: when Stmt.Query or Stmt.QueryRow returns after its work is done,
\* the connection that the call acquired is the connection of the Rows or
\* Row it returns, or it is in the idle buffer, or it is closed: it is not
\* dropped while open, and the handle is given no other connection.
C25_StmtReleasesOwn ==
    [][\A t \in Threads :
          (op[t] \in {"Stmt.Query", "Stmt.QueryRow"} /\ pc[t] = "race"
              /\ ev'.t = t /\ ev'.how = "done") =>
              \/ chi'.kind \in {"row", "rows"} /\ ~chi'.fin
                    /\ chi'.sqldb = cur[t]
              \/ chi' = chi /\ cur[t] \in Range(idle')
              \/ chi' = chi /\ conn'[cur[t]] # "open"]_vars

\* C26: when Stmt.Close has returned and nothing else is in flight or
\* held, the permit that Prepare took is back in db.sem and the connection
\* of the Stmt is in the idle buffer or closed; and a Stmt.Close whose
\* context was done returns the error of the cancellation (the context
\* error, or the error of closing the connection).
C26_StmtCloseReleases ==
    /\ (ev.op = "Stmt.Close" /\ Quiescent) =>
          /\ sem = maxOpenConns
          /\ par.sqldb \in Range(idle) \/ conn[par.sqldb] # "open"
    /\ (ev.op = "Stmt.Close" /\ ev.how = "cancel") =>
          ev.err \in {"ctxErr", "closeErr"}

\* C27: when the work of Ping, Exec, Commit or Rollback has completed
\* before the cancellation with the client's error e, the call returns e;
\* and Query and Prepare, whose work has completed, return nothing but
\* the result of the client.
C27_ClientErrVerbatim ==
    [][\A t \in Threads :
          /\ (op[t] \in {"Ping", "Exec", "Tx.Commit", "Tx.Rollback"}
                /\ pc[t] = "put" /\ werr[t] # "nil" /\ pc'[t] = "idle") =>
                    ev'.err = werr[t]
          /\ (op[t] \in {"Query", "Prepare"} /\ pc[t] = "race"
                /\ ev'.t = t /\ ev'.how = "done") =>
                    ev'.err \in ClientErrs]_vars

\* C28: a Rows.Scan whose scan completes before the cancellation with the
\* client's error returns that error, nothing else: it returns nil only
\* when the client's scan succeeded.
C28_RowsScanErr ==
    \A t \in Threads :
        (op[t] = "Rows.Scan" /\ pc[t] = "race") =>
            ~ENABLED (Rows_Done(t, "clientErr") /\ ev'.err # "clientErr")

\* C29: db.sem never holds more than maxOpenConns permits, and no call
\* returns the error of restoreOrClose for a full db.sem: the attempt to
\* send a permit to a full db.sem ends the program with a panic.
C29_OverReleaseFatal ==
    /\ sem <= maxOpenConns
    /\ ev.err # "overflow"

\* C30: a QueryRow whose context is done before it has taken a permit
\* starts no work on a connection, whether db.sem holds a permit or not,
\* and the Row it returns stores the context error.
C30_QueryRowPastDeadline ==
    [][\A t \in Threads :
          (op[t] = "QueryRow" /\ ctx[t] /\ pc'[t] # pc[t]
              /\ pc[t] \in {"acquire", "getConns", "select"}) =>
              /\ pc'[t] # "race"
              /\ pc'[t] = "idle" => chi' = ErrRow("ctxErr")]_vars

\* C31: a call of Ping, Exec, Begin, Tx.Commit, Tx.Rollback or Row.Scan
\* that is made with a context that is already done, and that neither
\* returns a stored error nor fails in getFromPool, leaves by a ctx.Done()
\* branch and returns the context error (or the error of the Close of the
\* connection, see C34): it never returns what the work left, so Begin
\* gives no Tx.
C31_DoneCtxReturnsCtxErr ==
    (ev.op \in {"Ping", "Exec", "Begin", "Tx.Commit", "Tx.Rollback",
                "Row.Scan"} /\ ev.how \notin {"stored", "sticky", "check",
                                              "pool", "panic"}) =>
        /\ ev.how \in {"acq", "cancel"}
        /\ ev.err \in {"ctxErr", "closeErr", "overflow"}


\* C32: when the work of Query, Prepare or Stmt.Query completes before the
\* cancellation with an error, the call returns that error and no handle,
\* its permit is back in db.sem, and its connection is in the idle buffer
\* or closed.
C32_FailedQueryReleases ==
    [][\A t \in Threads :
          (op[t] \in {"Query", "Prepare", "Stmt.Query"} /\ pc[t] = "race"
              /\ ev'.t = t /\ ev'.how = "done"
              /\ ev'.err \in ClientErrs \ {"nil"}) =>
              /\ par' = par /\ chi' = chi
              /\ sem' = sem + 1
              /\ cur[t] \in Range(idle') \/ conn'[cur[t]] # "open"]_vars


\* C33: when the work of Begin completes before the cancellation, Begin
\* returns a nil error only together with a Tx whose client transaction
\* is set; when the client's Begin failed it returns the client's error,
\* no Tx, and its permit is back in db.sem.
C33_BeginChecksClient ==
    [][\A t \in Threads :
          (op[t] = "Begin" /\ pc[t] = "race" /\ ev'.t = t
              /\ ev'.how = "done") =>
              IF ev'.err = "nil"
              THEN par'.kind = "tx" /\ ~par'.nilh
              ELSE par' = par /\ ev'.err = "clientErr" /\ sem' = sem + 1]_vars


\* C34: when the cancellation wins the race and the Close of the
\* connection fails, the call sends its permit back to db.sem and the
\* error it reports (Rows.Next: the error it stores) is the context
\* error, whichever call it is.
C34_DestroyFailureStillCancelled ==
    \A t \in Threads :
        (pc[t] = "race" /\ ctx[t] /\ cur[t] # 0 /\ conn[cur[t]] = "open") =>
            ~ENABLED
               (/\ \/ PoolOp_CtxDone(t, TRUE)
                   \/ Given_CtxDone(t, TRUE)
                   \/ Rows_CtxDone(t, TRUE)
                   \/ \E we \in ClientErrs : StmtClose_CtxDone(t, TRUE, we)
                /\ ~(/\ sem' = sem + 1
                     /\ "ctxErr" = IF ev'.op \in RowOps \cup {"Rows.Next"}
                                   THEN chi'.err ELSE ev'.err))


\* C35: a step that belongs to no call (no call starts, and no goroutine
\* is inside a call before or after it), such as the end of work that a
\* cancelled call has abandoned, changes neither db.sem, nor the idle
\* buffer, nor the Tx or Stmt the client holds, nor the error stored in
\* the Row or Rows it holds.
C35_AbandonedWorkInert ==
    [][(/\ calls' = calls
        /\ \A t \in Threads : pc[t] = "idle" /\ pc'[t] = "idle") =>
           /\ sem' = sem
           /\ idle' = idle
           /\ par' = par
           /\ chi'.kind = chi.kind
           /\ chi'.fin = chi.fin
           /\ chi'.err = chi.err]_vars


\* C36: at most maxOpenConns connections are live (created by the factory
\* and not closed), in the idle buffer, in handles and in calls together.
C36_LiveBounded ==
    Cardinality({c \in ConnIds : conn[c] = "open"}) <= maxOpenConns


\* C37: however put and DB.Close interleave: put sends nothing on the
\* channel that Close has closed; the connection that a put was given is in
\* the idle buffer or closed when put returns; and once the pool is closed
\* and no DB.Close is running, no open connection is left in the buffer.
C37_PutAgainstClose ==
    [][/\ Len(idle') > Len(idle) => (~chClosed /\ dbConns = "chan")
       /\ \A t \in Threads :
             (pc[t] = "put" /\ pc'[t] # "put") =>
                 cur[t] \in Range(idle') \/ conn'[cur[t]] # "open"
       /\ (dbConns' = "nil" /\ \A t \in Threads : op'[t] # "Close") =>
             \A c \in Range(idle') : conn'[c] # "open"]_vars


\* C38: however getFromPool and DB.Close interleave, getFromPool never
\* calls db.factory after DB.Close has set it to nil, and a call goes on
\* from getFromPool only with a connection.
C38_GetAgainstClose ==
    \A t \in Threads :
        /\ ~ENABLED GetFromPool_NilFactory(t)
        /\ (pc[t] = "race" /\ op[t] \in PoolOps) => cur[t] # 0


\* C39: SetMaxOpenConns(i) assigns the field db.maxOpenConns and changes
\* nothing else: db.sem, the idle buffer, db.conns, db.factory and the
\* connections are as before.  Whatever i is, db.sem and the idle buffer
\* hold at most maxOpenConns, and a call gets past the wait for a permit
\* only by taking one of the permits of db.sem.
C39_SetMaxOpenConnsFrame ==
    [][/\ ev'.op = "SetMaxOpenConns" =>
             /\ sem' = sem
             /\ idle' = idle
             /\ dbConns' = dbConns
             /\ chClosed' = chClosed
             /\ factory' = factory
             /\ conn' = conn
       /\ sem' <= maxOpenConns
       /\ Len(idle') <= maxOpenConns
       /\ \A t \in Threads :
             (pc[t] = "acquire" /\ pc'[t] = "getConns") =>
                 sem > 0 /\ sem' = sem - 1]_vars

\* C39, its case: SetMaxOpenConns has raised db.maxOpenConns above
\* maxOpenConns, and with maxOpenConns permits out a call waits for a permit
C39_Witness ==
    /\ dbMaxOpenConns > maxOpenConns
    /\ sem = 0
    /\ \E t \in Threads : pc[t] = "acquire"

====
